---- MODULE Spec2Model ----
(***************************************************************************)
(* Temporal-correlation engine of bringyour/connect (inspect/analysis):    *)
(* the Gaussian overlap model (overlap.py), the overlap -> distance        *)
(* transform (overlap.py, main.py), the loader of the precomputed overlap  *)
(* table (load_protos.py), the table-based matrix build (data_insights.py  *)
(* graph_data), the timestamp-based build (compare.py) and the clustering  *)
(* run (cluster.py cluster_data and main; main.py has the same code        *)
(* without the confidences).  The clusterers themselves (sklearn OPTICS,   *)
(* hdbscan) are libraries: fit_predict may leave any labels, ordering and  *)
(* core distances.                                                         *)
(*                                                                         *)
(* Numbers.  Overlaps read from the table are integers.  A distance is 0   *)
(* or e^(n/d) for a rational n/d and is kept exactly, as the record        *)
(* [kind, n, d] with n/d in lowest terms and d > 0 (1 is e^0).  Pulse      *)
(* overlaps are 2 * Phi(z) in units of 1/PhiUnit, read from the standard   *)
(* normal table on the grid z = k/4.  Core distances are distances or inf; *)
(* a confidence 1 - r is kept as the quotient r it is computed from.       *)
(***************************************************************************)
EXTENDS Integers, Naturals, Sequences, FiniteSets, TLC

VARIABLES
    pc,              \* position of the running entry point
    \* ---- load_protos.load_cooc ----
    cur_outer,       \* outer record being read (0: none)
    inner_dict,      \* inner_dict of the outer record being read
    cooc_data,       \* result: sid -> (sid -> overlap)
    max_overlap,     \* max_overlap tracked by the loader
    nrec,            \* inner records read so far
    \* ---- data_insights.graph_data ----
    sids,            \* sorted list of the table's outer keys
    heatmap_data,    \* N x N matrix of distances
    scan,            \* cells of the (i, j) scan already visited
    print_stats,     \* argument print_stats
    ordered_ids,     \* item indices in the order of the reordered matrix
    readers,         \* stages after the scan that have read heatmap_data
    printed,         \* messages printed by graph_data and by compare.py
    \* ---- compare.py (overlap mode, then distance mode) ----
    selected_sids,   \* config["selected_sids"], in the order of the config
    sid_times,       \* sid -> sequence of timestamps (first: initial_times)
    std_dev,         \* the std_dev of the current run
    overlap_matrix,  \* matrix filled by calculate_pairwise_overlaps
    pair,            \* (i, j) cells of the double loop already visited
    distance_matrix, \* result of create_distance_matrix
    visited,         \* pairs (i, j) computed, when taken in any order
    \* ---- calls of the pure functions ----
    args,            \* arguments of the call
    ret,             \* value(s) returned
    \* ---- cluster.py main / cluster_data ----
    key_order,       \* keys of cooc_data in their insertion order
    processed_args,  \* dict of the command-line arguments
    clusterer,       \* class of the clusterer constructed ("none": none)
    metric_calls,    \* distance_func(i, j) as evaluated by the clusterer
    fitted,          \* attributes of the clusterer after fit_predict
    labels,          \* labels returned by cluster_data
    probabilities,   \* probabilities returned by cluster_data
    clusters,        \* dict cluster_id -> items, in insertion order
    report,          \* lines printed by cluster.py main
    outcome,         \* how the process ended ("running": it has not)
    first_run        \* what an earlier run on the same table produced

loaderVars == <<cur_outer, inner_dict, cooc_data, max_overlap, nrec>>
graphVars ==
    <<sids, heatmap_data, scan, print_stats, ordered_ids, readers, printed>>
timesVars ==
    <<selected_sids, sid_times, std_dev, overlap_matrix, pair, distance_matrix,
      visited>>
callVars == <<args, ret>>
clusterVars ==
    <<key_order, processed_args, clusterer, metric_calls, fitted, labels,
      probabilities, clusters, report, outcome, first_run>>
vars == <<pc, loaderVars, graphVars, timesVars, callVars, clusterVars>>

----
\* Bounds of the model

NumSids == 3          \* StreamIDs 1..NumSids, numbered in their sort order
MaxRecords == 2       \* inner records in the loaded file
NumStreams == 3       \* streams of the timestamp file: 1..NumStreams
MaxTimes == 1         \* timestamps per stream of the timestamp file
MaxCallTimes == 2     \* timestamps per argument of a call of total_overlap
MaxCutoff == 9        \* cutoff handed to plot_overlap_gaussian.main

SIDS == 1..NumSids
OverlapVals == {0, 1, 2}  \* overlap values of the table
StdDevs == {0, 1, 2}  \* std_devs of a run (z = k/4 needs std_dev | 2)
TimeVals == {0, 1, 9} \* raw timestamps (gaps below, at and above 2 * cutoff)
NoSid == 0

----
\* Arithmetic helpers

Abs(x) == IF x < 0 THEN -x ELSE x
Max2(a, b) == IF a >= b THEN a ELSE b
Min2(a, b) == IF a <= b THEN a ELSE b

RECURSIVE GCD(_, _)
GCD(a, b) == IF b = 0 THEN a ELSE GCD(b, a % b)

\* ---- distances: 0, or e^(n/d) ----
Dist0 == [kind |-> "zero", n |-> 0, d |-> 1]
Dist1 == [kind |-> "exp", n |-> 0, d |-> 1]
\* raised by a division by zero (ZeroDivisionError)
DistErr == [kind |-> "error", n |-> 0, d |-> 1]

\* math.exp(num / den): e^(num/den) in lowest terms; den = 0 raises
Exp(num, den) ==
    IF den = 0 THEN DistErr
    ELSE LET s == IF den < 0 THEN -1 ELSE 1
             g == GCD(Abs(num), Abs(den))
         IN [kind |-> "exp", n |-> (s * num) \div g, d |-> (s * den) \div g]

\* 0 <= v <= 1
InUnit(v) == v.kind = "zero" \/ (v.kind = "exp" /\ v.n <= 0)

\* a <= b on distances (e^x is strictly increasing and positive)
DistLeq(a, b) ==
    /\ a.kind # "error" /\ b.kind # "error"
    /\ \/ a.kind = "zero"
       \/ a.kind = "exp" /\ b.kind = "exp" /\ a.n * b.d <= b.n * a.d

\* a + b < 2 on distances.  Exact when both are <= 1 (only 1 + 1 reaches 2)
\* and when both are >= 1; for one value above 1 and one below, decided by
\* 1 + x <= e^x <= 1/(1 - x) (x < 1), the sum counted as >= 2 when these
\* bounds do not decide.
SumLessThan2(a, b) ==
    IF a.kind = "error" \/ b.kind = "error" THEN FALSE
    ELSE IF InUnit(a) /\ InUnit(b) THEN ~(a = Dist1 /\ b = Dist1)
    ELSE IF ~InUnit(a) /\ ~InUnit(b) THEN FALSE
    ELSE LET hi == IF InUnit(a) THEN b ELSE a
             lo == IF InUnit(a) THEN a ELSE b
         IN  /\ hi.n < hi.d
             /\ IF lo.kind = "zero"
                THEN 2 * hi.n < hi.d              \* 1/(1-p) < 2
                ELSE \* 1/(1-p) + 1/(1-q) < 2, p = hi.n/hi.d, q = lo.n/lo.d
                     LET P == hi.d - hi.n   \* 1 - p = P / hi.d
                         Q == lo.d - lo.n   \* 1 - q = Q / lo.d
                     IN hi.d * Q + lo.d * P < 2 * P * Q

----
\* overlap.py / main.py: the overlap -> distance transform

\* overlap.py:44 and main.py:183
ALPHA_OVERLAP == 13
ALPHA_MAIN == 3

\* (variant: the sign of the exponent lost)
ExpDecay_growth(alpha, overlap, max) == Exp(alpha * overlap, max)

\* math.exp(-alpha * (overlap / max_overlap))
ExpDecay(alpha, overlap, max) == Exp(-alpha * overlap, max)

\* (variant: the test against max_overlap left out)
overlap_to_distance_noclamp(overlap, max) ==
    IF overlap <= 0 THEN Dist1
    ELSE ExpDecay(ALPHA_OVERLAP, overlap, max)

\* (variant: the test against max_overlap made first)
overlap_to_distance_maxfirst(overlap, max) ==
    IF overlap >= max THEN Dist0
    ELSE IF overlap <= 0 THEN Dist1
    ELSE ExpDecay(ALPHA_OVERLAP, overlap, max)

\* (variant: only overlap = max_overlap mapped to 0)
overlap_to_distance_equal(overlap, max) ==
    IF overlap <= 0 THEN Dist1
    ELSE IF overlap = max THEN Dist0
    ELSE ExpDecay(ALPHA_OVERLAP, overlap, max)

\* overlap.py:43-52 overlap_to_distance (alpha = 13)
overlap_to_distance(overlap, max) ==
    IF overlap <= 0 THEN Dist1
    ELSE IF overlap >= max THEN Dist0
    ELSE ExpDecay(ALPHA_OVERLAP, overlap, max)

\* (variant: max_overlap itself not mapped to 0)
main_overlap_to_distance_strict(overlap, max) ==
    IF overlap <= 0 THEN Dist1
    ELSE IF overlap > max THEN Dist0
    ELSE ExpDecay(ALPHA_MAIN, overlap, max)

\* main.py:182-192 overlap_to_distance (alpha = 3)
main_overlap_to_distance(overlap, max) ==
    IF overlap <= 0 THEN Dist1
    ELSE IF overlap >= max THEN Dist0
    ELSE ExpDecay(ALPHA_MAIN, overlap, max)

----
\* Collections

EmptyMap == [x \in {} |-> 0]

\* d[k] = v on a dict
Put(d, k, v) == [x \in DOMAIN d \cup {k} |-> IF x = k THEN v ELSE d[x]]

SetMin(S) == CHOOSE x \in S : \A y \in S : x <= y

\* list.sort() of the keys in S: ascending
RECURSIVE SortedSeq(_)
SortedSeq(S) ==
    IF S = {} THEN <<>> ELSE <<SetMin(S)>> \o SortedSeq(S \ {SetMin(S)})

\* np.ones((n, n)) / np.zeros((n, n))
Ones(n) == [i \in 1..n |-> [j \in 1..n |-> Dist1]]
Zeros(n) == [i \in 1..n |-> [j \in 1..n |-> 0]]

Symmetric(m) ==
    \A i \in DOMAIN m : \A j \in DOMAIN m[i] : j \in DOMAIN m /\ m[i][j] = m[j][i]

----
\* load_protos.py load_cooc, one record of the file per step

\* load_cooc:29-30
LoaderStart ==
    /\ cur_outer = NoSid
    /\ inner_dict = EmptyMap
    /\ cooc_data = EmptyMap
    /\ max_overlap = -1
    /\ nrec = 0

\* load_cooc:31-33: next outer record
LoadOuter(s) ==
    /\ pc = "load_cooc"
    /\ cur_outer = NoSid
    /\ cur_outer' = s
    /\ inner_dict' = EmptyMap
    /\ UNCHANGED <<pc, cooc_data, max_overlap, nrec>>
    /\ UNCHANGED <<graphVars, timesVars, callVars, clusterVars>>

\* load_cooc:37-38
TrackMax(max, overlap) == IF overlap > max THEN overlap ELSE max

\* load_cooc:34-38: next inner record of the current outer record
LoadInner(t, v) ==
    /\ pc = "load_cooc"
    /\ cur_outer # NoSid
    /\ nrec < MaxRecords
    /\ inner_dict' = Put(inner_dict, t, v)
    /\ max_overlap' = TrackMax(max_overlap, v)
    /\ nrec' = nrec + 1
    /\ UNCHANGED <<pc, cur_outer, cooc_data>>
    /\ UNCHANGED <<graphVars, timesVars, callVars, clusterVars>>

\* load_cooc:39: the outer record is complete
LoadOuterEnd ==
    /\ pc = "load_cooc"
    /\ cur_outer # NoSid
    /\ cooc_data' = Put(cooc_data, cur_outer, inner_dict)
    /\ cur_outer' = NoSid
    /\ inner_dict' = EmptyMap
    /\ UNCHANGED <<pc, max_overlap, nrec>>
    /\ UNCHANGED <<graphVars, timesVars, callVars, clusterVars>>

\* load_cooc:41 and data_insights.py:164-169, graph_data:25-28:
\* sort the outer keys, allocate the matrix of ones, start the scan
InsightsMain ==
    /\ pc = "load_cooc"
    /\ cur_outer = NoSid
    /\ sids' = SortedSeq(DOMAIN cooc_data)
    /\ heatmap_data' = Ones(Cardinality(DOMAIN cooc_data))
    /\ scan' = 0
    /\ print_stats' \in BOOLEAN
    /\ pc' = "scan"
    /\ UNCHANGED <<ordered_ids, readers, printed>>
    /\ UNCHANGED <<loaderVars, timesVars, callVars>>
    /\ UNCHANGED clusterVars

----
\* data_insights.py graph_data (main.py graph_data is the same scan)

\* graph_data:35: a value was already set for the pair
AlreadySet(hm, i, j) == SumLessThan2(hm[i][j], hm[j][i])

\* (variant: the mirror cell not written)
WriteMirrored_onecell(hm, i, j, v) ==
    [hm EXCEPT ![Max2(i, j)][Min2(i, j)] = v]

\* graph_data:42-45
WriteMirrored(hm, i, j, v) ==
    LET large == Max2(i, j)
        small == Min2(i, j)
    IN [[hm EXCEPT ![large][small] = v] EXCEPT ![small][large] = v]

\* (variant: the message is printed and the scan goes on)
DuplicateFound_continue(k) == [pc |-> "scan", scan |-> k + 1]

\* graph_data:37-38: print and return
DuplicateFound(k) == [pc |-> "duplicate", scan |-> k]

\* graph_data:30-34: cell k of the row-major double loop holds an entry
HasEntry(k) ==
    LET sid_i == sids[(k \div Len(sids)) + 1]
        sid_j == sids[(k % Len(sids)) + 1]
    IN sid_i \in DOMAIN cooc_data /\ sid_j \in DOMAIN cooc_data[sid_i]

\* graph_data:30-34: the first cell from k on that holds an entry (the cells
\* before it are passed without effect), or the end of the loop
RECURSIVE NextEntry(_)
NextEntry(k) ==
    IF k >= Len(sids) * Len(sids) \/ HasEntry(k) THEN k ELSE NextEntry(k + 1)

\* graph_data:30-45, one entry of the double loop per step
GraphScanStep ==
    /\ pc = "scan"
    /\ LET k == NextEntry(scan)
           i == (k \div Len(sids)) + 1
           j == (k % Len(sids)) + 1
           sid_i == sids[i]
           sid_j == sids[j]
       IN /\ k < Len(sids) * Len(sids)
          /\ IF AlreadySet(heatmap_data, i, j)
             THEN /\ printed' = Append(printed,
                           [msg |-> "Duplicate entry found",
                            a |-> sid_i, b |-> sid_j])
                  /\ pc' = DuplicateFound(k).pc
                  /\ scan' = DuplicateFound(k).scan
                  /\ UNCHANGED heatmap_data
             ELSE /\ heatmap_data' =
                       WriteMirrored(heatmap_data, i, j,
                           overlap_to_distance(cooc_data[sid_i][sid_j],
                                               max_overlap))
                  /\ scan' = k + 1
                  /\ UNCHANGED <<pc, printed>>
    /\ UNCHANGED <<sids, print_stats, ordered_ids, readers>>
    /\ UNCHANGED <<loaderVars, timesVars, callVars, clusterVars>>

\* graph_data:47: the scan is over
GraphScanDone ==
    /\ pc = "scan"
    /\ NextEntry(scan) = Len(sids) * Len(sids)
    /\ scan' = Len(sids) * Len(sids)
    /\ pc' = IF print_stats THEN "stats" ELSE "reorder"
    /\ UNCHANGED <<sids, heatmap_data, print_stats, ordered_ids, readers,
                   printed>>
    /\ UNCHANGED <<loaderVars, timesVars, callVars, clusterVars>>

\* graph_data:48: _stats(heatmap_data)
GraphStats ==
    /\ pc = "stats"
    /\ readers' = readers \cup {"stats"}
    /\ pc' = "reorder"
    /\ UNCHANGED <<sids, heatmap_data, scan, print_stats, ordered_ids,
                   printed>>
    /\ UNCHANGED <<loaderVars, timesVars, callVars, clusterVars>>

\* graph_data:51-53: the items of the clusters, cluster ids in sorted order
RECURSIVE OrderedIdsFrom(_, _)
OrderedIdsFrom(cl, keys) ==
    IF keys = <<>> THEN <<>>
    ELSE LET k == CHOOSE k \in DOMAIN cl : cl[k].cluster_id = keys[1]
         IN cl[k].items \o OrderedIdsFrom(cl, Tail(keys))

OrderedIds(cl) ==
    OrderedIdsFrom(cl, SortedSeq({cl[k].cluster_id : k \in DOMAIN cl}))

\* graph_data:50-55: reordered_matrix = heatmap_data[np.ix_(...)]
GraphReorder ==
    /\ pc = "reorder"
    /\ ordered_ids' = OrderedIds(clusters)
    /\ readers' = readers \cup {"reorder"}
    /\ pc' = "heatmap"
    /\ UNCHANGED <<sids, heatmap_data, scan, print_stats, printed>>
    /\ UNCHANGED <<loaderVars, timesVars, callVars, clusterVars>>

\* graph_data:56-72: the heatmap is rendered and saved
GraphHeatmap ==
    /\ pc = "heatmap"
    /\ readers' = readers \cup {"heatmap"}
    /\ pc' = "projection"
    /\ UNCHANGED <<sids, heatmap_data, scan, print_stats, ordered_ids,
                   printed>>
    /\ UNCHANGED <<loaderVars, timesVars, callVars, clusterVars>>

\* graph_data:74-111: the 2D projection is computed and saved
GraphProjection ==
    /\ pc = "projection"
    /\ readers' = readers \cup {"projection"}
    /\ pc' = "done"
    /\ UNCHANGED <<sids, heatmap_data, scan, print_stats, ordered_ids,
                   printed>>
    /\ UNCHANGED <<loaderVars, timesVars, callVars, clusterVars>>

----
\* overlap.py overlap_area, compare.py total_overlap

\* 2 * Phi(-k/4) in units of 1/10000, k = 0..16 (standard normal table)
PhiTable ==
    <<10000, 8026, 6171, 4533, 3173, 2113, 1336, 801, 455, 244, 124, 60, 27,
      12, 5, 2, 1>>
PhiUnit == PhiTable[1]

\* 2 * Phi(zq / 4): the table for zq <= 0, Phi(z) = 1 - Phi(-z) above; below
\* the table the tail is still positive and counts as one unit
RECURSIVE Phi2(_)
Phi2(zq) ==
    IF zq > 0 THEN 2 * PhiUnit - Phi2(-zq)
    ELSE IF -zq + 1 <= Len(PhiTable) THEN PhiTable[-zq + 1]
    ELSE 1

\* 2 * norm.cdf(middle, mean, std_dev), middle given as twice its value;
\* a scale of 0 or less yields nan (-1 here)
NormCdf2(middle2, mean, sd) ==
    IF sd <= 0 THEN -1
    ELSE Phi2((2 * (middle2 - 2 * mean)) \div sd)

\* (variant: the curve of mean1 whichever mean is bigger)
overlap_area_mean1(mean1, std_dev1, mean2, std_dev2, cutoff) ==
    IF Max2(mean1, mean2) - cutoff >= Min2(mean1, mean2) + cutoff THEN 0
    ELSE NormCdf2(mean1 + mean2, mean1, std_dev1)

\* (variant: a window of one point counted as a window)
overlap_area_strict(mean1, std_dev1, mean2, std_dev2, cutoff) ==
    IF Max2(mean1, mean2) - cutoff > Min2(mean1, mean2) + cutoff THEN 0
    ELSE IF mean1 > mean2
         THEN NormCdf2(mean1 + mean2, mean1, std_dev1)
         ELSE NormCdf2(mean1 + mean2, mean2, std_dev2)

\* overlap.py:5-19
overlap_area(mean1, std_dev1, mean2, std_dev2, cutoff) ==
    LET lower_limit == Max2(mean1, mean2) - cutoff
        upper_limit == Min2(mean1, mean2) + cutoff
    IN IF lower_limit >= upper_limit THEN 0
       ELSE IF mean1 > mean2
            THEN NormCdf2(mean1 + mean2, mean1, std_dev1)
            ELSE NormCdf2(mean1 + mean2, mean2, std_dev2)

\* compare.py:13-18: the double loop, t1 outer, t2 inner
RECURSIVE total_overlap_from(_, _, _, _, _, _)
total_overlap_from(times1, times2, sd, cutoff, a, b) ==
    IF a > Len(times1) THEN 0
    ELSE IF b > Len(times2)
         THEN total_overlap_from(times1, times2, sd, cutoff, a + 1, 1)
         ELSE overlap_area(times1[a], sd, times2[b], sd, cutoff)
              + total_overlap_from(times1, times2, sd, cutoff, a, b + 1)

total_overlap(times1, times2, sd, cutoff) ==
    total_overlap_from(times1, times2, sd, cutoff, 1, 1)

----
\* compare.py: overlap mode (__main__:221-243), then distance mode

\* compare.py:239
CUTOFF_FACTOR == 4

TimeSids == 1..NumStreams
TimeSeqs == UNION {[1..n -> TimeVals] : n \in 1..MaxTimes}
CallTimeSeqs == UNION {[1..n -> TimeVals] : n \in 1..MaxCallTimes}

\* the selection of the config: the streams of the file, in either order
Reverse(q) == [k \in 1..Len(q) |-> q[Len(q) + 1 - k]]
Selections == {SortedSeq(TimeSids), Reverse(SortedSeq(TimeSids))}

RECURSIVE SeqMin(_)
SeqMin(q) == IF Len(q) = 1 THEN q[1] ELSE Min2(q[1], SeqMin(Tail(q)))

\* compare.py:231-233: subtract the minimum found time from all times
SubtractMin(st) ==
    LET min_time == SetMin({SeqMin(st[s]) : s \in DOMAIN st})
    IN [s \in DOMAIN st |-> [k \in DOMAIN st[s] |-> st[s][k] - min_time]]

\* compare.py:222-226: the times of the selected sids the loader returned
SelectTimes(initial_times, sel) ==
    [s \in {sel[k] : k \in DOMAIN sel} \cap DOMAIN initial_times |->
        initial_times[s]]

\* compare.py:227-228: one message per selected sid the loader did not return
NotFound(initial_times, sel) ==
    LET missing == SelectSeq(sel, LAMBDA s : s \notin DOMAIN initial_times)
    IN [k \in DOMAIN missing |->
           [msg |-> "SID not found in data", a |-> missing[k], b |-> missing[k]]]

\* compare.py:222-236 and calculate_pairwise_overlaps:27.  min() of no
\* times raises ValueError (231); plot_times looks up sid_times[sid] for
\* every selected sid (75) and raises KeyError for one that was not found
CompareMain ==
    /\ pc = "compare"
    /\ LET found == SelectTimes(sid_times, selected_sids)
       IN /\ printed' = printed \o NotFound(sid_times, selected_sids)
          /\ IF DOMAIN found = {}
             THEN /\ sid_times' = found
                  /\ outcome' = "ValueError"
                  /\ pc' = "exit"
                  /\ UNCHANGED <<overlap_matrix, pair>>
             ELSE IF \E k \in DOMAIN selected_sids :
                        selected_sids[k] \notin DOMAIN found
             THEN /\ sid_times' = SubtractMin(found)
                  /\ outcome' = "KeyError in plot_times"
                  /\ pc' = "exit"
                  /\ UNCHANGED <<overlap_matrix, pair>>
             ELSE /\ sid_times' = SubtractMin(found)
                  /\ overlap_matrix' = Zeros(Cardinality(DOMAIN found))
                  /\ pair' = 0
                  /\ pc' = "pairs"
                  /\ UNCHANGED outcome
    /\ UNCHANGED <<selected_sids, std_dev, distance_matrix, visited>>
    /\ UNCHANGED <<sids, heatmap_data, scan, print_stats, ordered_ids, readers>>
    /\ UNCHANGED <<key_order, processed_args, clusterer, metric_calls, fitted,
                   labels, probabilities, clusters, report, first_run>>
    /\ UNCHANGED <<loaderVars, callVars>>

\* (variant: the whole row of i written)
WritePair_wholerow(m, i, j, v) ==
    LET m1 == [m EXCEPT ![i] = [b \in DOMAIN m[i] |-> v]]
    IN [m1 EXCEPT ![j][i] = m1[i][j]]

\* calculate_pairwise_overlaps:32-38: the cell and its mirror
WritePair(m, i, j, v) ==
    LET m1 == [m EXCEPT ![i][j] = v]
    IN [m1 EXCEPT ![j][i] = m1[i][j]]

\* calculate_pairwise_overlaps:28-31: the first cell (i, j) from k on with
\* i < j (the others are passed by continue), or the end of the loop
RECURSIVE NextPair(_, _)
NextPair(k, n) ==
    IF k >= n * n \/ (k \div n) < (k % n) THEN k ELSE NextPair(k + 1, n)

\* calculate_pairwise_overlaps:28-38, one pair i < j of the double loop per
\* step
PairStep ==
    /\ pc = "pairs"
    /\ LET n == Len(selected_sids)
           k == NextPair(pair, n)
           i == (k \div n) + 1
           j == (k % n) + 1
       IN /\ k < n * n
          /\ pair' = k + 1
          /\ IF ~({selected_sids[i], selected_sids[j]} \subseteq DOMAIN sid_times)
             THEN \* sid_times[sid_i], sid_times[sid_j]: KeyError
                  /\ outcome' = "KeyError"
                  /\ pc' = "exit"
                  /\ UNCHANGED overlap_matrix
             ELSE IF j > Len(overlap_matrix)
             THEN \* overlap_matrix[i][j] = ...: IndexError
                  /\ outcome' = "IndexError"
                  /\ pc' = "exit"
                  /\ UNCHANGED overlap_matrix
             ELSE /\ overlap_matrix' =
                        WritePair(overlap_matrix, i, j,
                            total_overlap(sid_times[selected_sids[i]],
                                          sid_times[selected_sids[j]],
                                          std_dev, std_dev * CUTOFF_FACTOR))
                  /\ UNCHANGED <<pc, outcome>>
    /\ UNCHANGED <<selected_sids, sid_times, std_dev, distance_matrix,
                   visited>>
    /\ UNCHANGED <<key_order, processed_args, clusterer, metric_calls, fitted,
                   labels, probabilities, clusters, report, first_run>>
    /\ UNCHANGED <<loaderVars, graphVars, callVars>>

\* calculate_pairwise_overlaps:42-45 and save_overlap_matrices
PairsDone ==
    /\ pc = "pairs"
    /\ NextPair(pair, Len(selected_sids))
          = Len(selected_sids) * Len(selected_sids)
    /\ pc' = "saved"
    /\ UNCHANGED timesVars
    /\ UNCHANGED <<loaderVars, graphVars, callVars, clusterVars>>

\* calculate_pairwise_overlaps:32-37: the value of the pair (i, j)
PairOverlap(i, j) ==
    total_overlap(sid_times[selected_sids[i]], sid_times[selected_sids[j]],
                  std_dev, std_dev * CUTOFF_FACTOR)

\* calculate_pairwise_overlaps:27-38: the matrix the double loop leaves,
\* from cell k of its row-major order on
RECURSIVE PairwiseFrom(_, _)
PairwiseFrom(m, k) ==
    LET n == Len(selected_sids)
        c == NextPair(k, n)
    IN IF c >= n * n THEN m
       ELSE PairwiseFrom(WritePair(m, (c \div n) + 1, (c % n) + 1,
                             PairOverlap((c \div n) + 1, (c % n) + 1)),
                         c + 1)

calculate_pairwise_overlaps ==
    PairwiseFrom(Zeros(Cardinality(DOMAIN sid_times)), 0)

\* the pairs i < j of the double loop
AllPairs ==
    {c \in (1..Len(selected_sids)) \X (1..Len(selected_sids)) : c[1] < c[2]}

\* calculate_pairwise_overlaps:32-38 for the pair (i, j), the iterations of
\* the double loop taken in any order
PairStepAny(i, j) ==
    /\ pc = "pairs"
    /\ <<i, j>> \in AllPairs \ visited
    /\ overlap_matrix' = WritePair(overlap_matrix, i, j, PairOverlap(i, j))
    /\ visited' = visited \cup {<<i, j>>}
    /\ UNCHANGED <<pc, selected_sids, sid_times, std_dev, pair,
                   distance_matrix>>
    /\ UNCHANGED <<loaderVars, graphVars, callVars, clusterVars>>

\* calculate_pairwise_overlaps:42-45: every pair has been computed
AnyOrderDone ==
    /\ pc = "pairs"
    /\ visited = AllPairs
    /\ pc' = "saved"
    /\ UNCHANGED timesVars
    /\ UNCHANGED <<loaderVars, graphVars, callVars, clusterVars>>

\* np.max(matrix)
MatrixMax(m) ==
    CHOOSE x \in {m[i][j] : i \in DOMAIN m, j \in DOMAIN m} :
        \A i \in DOMAIN m : \A j \in DOMAIN m : m[i][j] <= x

\* compare.py:123-131
create_distance_matrix(matrix) ==
    LET max == MatrixMax(matrix)
    IN [i \in DOMAIN matrix |-> [j \in DOMAIN matrix |->
            overlap_to_distance(matrix[i][j], max)]]

\* plot_distances:154-155 on the matrix saved by the overlap mode
PlotDistances ==
    /\ pc = "saved"
    /\ distance_matrix' = create_distance_matrix(overlap_matrix)
    /\ pc' = "distances"
    /\ UNCHANGED <<selected_sids, sid_times, std_dev, overlap_matrix, pair,
                   visited>>
    /\ UNCHANGED <<loaderVars, graphVars, callVars, clusterVars>>

----
\* Calls of the pure functions on drawn arguments

NoCall == [fn |-> "none"]

OverlapArgs == (-1)..4
MaxArgs == (-1)..3

\* overlap.py overlap_to_distance on (overlap, max) and (overlap2, max)
CallOverlapToDistance ==
    /\ pc = "call_transform"
    /\ ret' = [fn |-> "overlap.overlap_to_distance",
               d |-> overlap_to_distance(args.overlap, args.max),
               d2 |-> overlap_to_distance(args.overlap2, args.max)]
    /\ pc' = "returned"
    /\ UNCHANGED <<args, loaderVars, graphVars, timesVars, clusterVars>>

\* main.py overlap_to_distance on (overlap, max) and (overlap2, max)
CallMainOverlapToDistance ==
    /\ pc = "call_transform"
    /\ ret' = [fn |-> "main.overlap_to_distance",
               d |-> main_overlap_to_distance(args.overlap, args.max),
               d2 |-> main_overlap_to_distance(args.overlap2, args.max)]
    /\ pc' = "returned"
    /\ UNCHANGED <<args, loaderVars, graphVars, timesVars, clusterVars>>

\* compare.py:32-37: total_overlap with cutoff = std_dev * cutoff_factor,
\* for the pair of streams (times1, times2) and for the pair (times2, times1)
CallTotalOverlap ==
    /\ pc = "call_overlap"
    /\ LET c == args.std_dev * CUTOFF_FACTOR
       IN ret' = [fn |-> "total_overlap", cutoff |-> c,
                  ab |-> total_overlap(args.times1, args.times2,
                                       args.std_dev, c),
                  ba |-> total_overlap(args.times2, args.times1,
                                       args.std_dev, c)]
    /\ pc' = "returned"
    /\ UNCHANGED <<args, loaderVars, graphVars, timesVars, clusterVars>>

\* compare.py:13-18: total_overlap(times1, times2, std_dev, cutoff) on the
\* cutoff its caller hands it; every overlap_area call gets that cutoff
CallTotalOverlapWithCutoff ==
    /\ pc = "call_overlap"
    /\ ret' = [fn |-> "total_overlap(cutoff)", cutoff |-> args.cutoff,
               total |-> total_overlap(args.times1, args.times2,
                                       args.std_dev, args.cutoff)]
    /\ pc' = "returned"
    /\ UNCHANGED <<args, loaderVars, graphVars, timesVars, clusterVars>>

\* plot_overlap_gaussian.py:39-70 plot_areas (same_times = False): the area
\* of every pair, and the total of the positive ones
PairAreas(times1, times2, sd, cutoff) ==
    [a \in 1..Len(times1) |-> [b \in 1..Len(times2) |->
        overlap_area(times1[a], sd, times2[b], sd, cutoff)]]

RECURSIVE plot_areas_from(_, _, _)
plot_areas_from(areas, a, b) ==
    IF a > Len(areas) THEN 0
    ELSE IF b > Len(areas[a]) THEN plot_areas_from(areas, a + 1, 1)
    ELSE (IF areas[a][b] > 0 THEN areas[a][b] ELSE 0)
         + plot_areas_from(areas, a, b + 1)

\* plot_overlap_gaussian.py:74-77
ClampCutoff(cutoff, sd) == Min2(cutoff, 4 * sd)

\* plot_overlap_gaussian.py:73-107 main(times1, times2, std_dev, cutoff)
PlotGaussianMain ==
    /\ pc = "call_overlap"
    /\ LET c == ClampCutoff(args.cutoff, args.std_dev)
           areas == PairAreas(args.times1, args.times2, args.std_dev, c)
       IN ret' = [fn |-> "plot_overlap_gaussian.main", cutoff |-> c,
                  areas |-> areas, total |-> plot_areas_from(areas, 1, 1)]
    /\ pc' = "returned"
    /\ UNCHANGED <<args, loaderVars, graphVars, timesVars, clusterVars>>

----
\* cluster.py: numbers of the clusterer (numpy float64)

DistInf == [kind |-> "inf", n |-> 0, d |-> 1]
DistNaN == [kind |-> "nan", n |-> 0, d |-> 1]

\* a > b on core distances: 0, e^(n/d) or inf
DistGreater(a, b) ==
    IF a.kind = "inf" THEN b.kind # "inf"
    ELSE IF b.kind = "inf" THEN FALSE
    ELSE ~DistLeq(a, b)

\* max(core_dist): the builtin keeps the first of the largest items
RECURSIVE SeqMaxFrom(_, _, _)
SeqMaxFrom(q, k, best) ==
    IF k > Len(q) THEN best
    ELSE SeqMaxFrom(q, k + 1, IF DistGreater(q[k], best) THEN q[k] ELSE best)

SeqMax(q) == SeqMaxFrom(q, 2, q[1])

\* a / b on float64: inf / inf and 0 / 0 are nan, x / 0 is inf, x / inf is 0
\* (numpy warns and does not raise)
Divide(a, b) ==
    IF a.kind = "nan" \/ b.kind = "nan" THEN DistNaN
    ELSE IF a.kind = "inf"
         THEN (IF b.kind = "inf" THEN DistNaN ELSE DistInf)
    ELSE IF b.kind = "inf" THEN Dist0
    ELSE IF b.kind = "zero"
         THEN (IF a.kind = "zero" THEN DistNaN ELSE DistInf)
    ELSE IF a.kind = "zero" THEN Dist0
    ELSE Exp(a.n * b.d - b.n * a.d, a.d * b.d)

\* 1 - r, kept as the r it is taken from (1 - nan is nan, 1 - inf is -inf)
OneMinus(r) == [kind |-> "one_minus", r |-> r]

Prob0 == OneMinus(Dist1)
Prob1 == OneMinus(Dist0)

\* 0 <= p <= 1 for p = 1 - r
ProbInUnit(p) == InUnit(p.r)

\* cluster.py:43: core_distances_[ordering_] (numpy fancy indexing)
Permute(v, ordering) == [k \in 1..Len(ordering) |-> v[ordering[k]]]

\* cluster.py:43-46: the probabilities of the OPTICS branch
OpticsProbabilities(core_distances, ordering) ==
    LET core_dist == Permute(core_distances, ordering)
    IN [i \in 1..Len(core_dist) |->
            OneMinus(Divide(core_dist[i], SeqMax(core_dist)))]

----
\* cluster.py: the command line (load_protos.get_args) and cluster_data

\* values of cluster_method on the command line ("": cluster_method=)
MethodNames == {"", "optics", "HDBSCAN", "kmeans"}

\* str.upper() / str.lower() on the strings of the model
Upper(str) ==
    CASE str = "optics" -> "OPTICS"
      [] str = "kmeans" -> "KMEANS"
      [] OTHER -> str

Lower(str) ==
    CASE str = "Print_Stats" -> "print_stats"
      [] OTHER -> str

\* values of cluster_args, each given by its split(",") and split("=", 1):
\* "", "min_samples=2", "max_eps=1", "min_samples" (no "=")
ClusterArgStrings ==
    {<<>>, << <<"min_samples", 2>> >>, << <<"max_eps", 1>> >>,
     << <<"min_samples">> >>}

\* values of show_graph
ShowGraphValues == {"Print_Stats", "no_stats"}

\* get_args:11-15: the dict of the key=value arguments that were given
\* (an argument is <<v>> when given with value v and <<>> when left out)
get_args(m, a, g) ==
    LET given == [cluster_method |-> m, cluster_args |-> a, show_graph |-> g]
    IN [k \in {x \in DOMAIN given : given[x] # <<>>} |-> given[k][1]]

Optional(S) == {<<>>} \cup {<<x>> : x \in S}

CommandLines ==
    {get_args(m, a, g) : m \in Optional(MethodNames),
                         a \in Optional(ClusterArgStrings),
                         g \in Optional(ShowGraphValues)}

\* cluster_data:18,86: processed_args.get("cluster_method") is truthy
HasMethod(pa) == "cluster_method" \in DOMAIN pa /\ pa["cluster_method"] # ""

\* cluster_data:20-21: processed_args.get("cluster_args") is truthy
HasClusterArgs(pa) == "cluster_args" \in DOMAIN pa /\ pa["cluster_args"] # <<>>

\* cluster_data:24-35: key, value = arg.split("=", maxsplit=1) for each arg;
\* an arg without "=" cannot be unpacked (ValueError)
RECURSIVE ParseClusterArgs(_, _)
ParseClusterArgs(cluster_args, args_dict) ==
    IF cluster_args = <<>> THEN [ok |-> TRUE, args_dict |-> args_dict]
    ELSE IF Len(Head(cluster_args)) < 2
         THEN [ok |-> FALSE, args_dict |-> args_dict]
         ELSE ParseClusterArgs(Tail(cluster_args),
                  Put(args_dict, Head(cluster_args)[1], Head(cluster_args)[2]))

\* cluster_data:38,67
Supported == {"OPTICS", "HDBSCAN"}

\* messages of sys.exit in cluster_data (22, 82, 87), and the exception of 26
NoClusterArgs == "argument 'cluster_args' not provided"
UnknownMethod == "Unknown cluster method"
NoClusterMethod == "argument 'cluster_method' not provided"
ValueErrorRaised == "ValueError"

NoClusterer == [class |-> "none", params |-> EmptyMap]

\* (variant: every name other than OPTICS taken as HDBSCAN)
cluster_data_setup_anyname(pa) ==
    IF ~HasMethod(pa) THEN [exit |-> NoClusterMethod, clusterer |-> NoClusterer]
    ELSE IF ~HasClusterArgs(pa)
         THEN [exit |-> NoClusterArgs, clusterer |-> NoClusterer]
    ELSE LET parsed == ParseClusterArgs(pa["cluster_args"], EmptyMap)
             cluster_method == Upper(pa["cluster_method"])
         IN IF ~parsed.ok
            THEN [exit |-> ValueErrorRaised, clusterer |-> NoClusterer]
            ELSE [exit |-> "running",
                  clusterer |-> [class |-> IF cluster_method = "OPTICS"
                                           THEN "OPTICS" ELSE "HDBSCAN",
                                 params |-> parsed.args_dict]]

\* cluster_data:17-40,67-69,82,86-87 up to the construction of the clusterer:
\* the clusterer constructed, or the message the process exits with
cluster_data_setup(pa) ==
    IF ~HasMethod(pa) THEN [exit |-> NoClusterMethod, clusterer |-> NoClusterer]
    ELSE IF ~HasClusterArgs(pa)
         THEN [exit |-> NoClusterArgs, clusterer |-> NoClusterer]
    ELSE LET parsed == ParseClusterArgs(pa["cluster_args"], EmptyMap)
             cluster_method == Upper(pa["cluster_method"])
         IN IF ~parsed.ok
            THEN [exit |-> ValueErrorRaised, clusterer |-> NoClusterer]
            ELSE IF cluster_method \notin Supported
            THEN [exit |-> UnknownMethod, clusterer |-> NoClusterer]
            ELSE [exit |-> "running",
                  clusterer |-> [class |-> cluster_method,
                                 params |-> parsed.args_dict]]

----
\* cluster.py main (main.py main groups and prints in the same way)

\* list.sort() on a list of keys: insertion into the sorted rest
RECURSIVE InsertSorted(_, _)
InsertSorted(q, x) ==
    IF q = <<>> THEN <<x>>
    ELSE IF x <= Head(q) THEN <<x>> \o q
    ELSE <<Head(q)>> \o InsertSorted(Tail(q), x)

\* (variant: the keys left in their insertion order)
ListSort_asis(q) == q

\* main:91-92: sids = list(cooc_data.keys()); sids.sort()
RECURSIVE ListSort(_)
ListSort(q) ==
    IF q = <<>> THEN <<>> ELSE InsertSorted(ListSort(Tail(q)), Head(q))

\* dict.get(k, 0)
Get0(d, k) == IF k \in DOMAIN d THEN d[k] ELSE 0

\* main:94-99, the closure over sids, cooc_data and max_overlap
distance_func(idx1, idx2) ==
    LET sid1 == sids[idx1]
        sid2 == sids[idx2]
    IN overlap_to_distance(Get0(cooc_data[sid1], sid2), max_overlap)

\* the values of distance_func on the samples of main:102
MetricValues ==
    [i \in 1..Len(sids) |-> [j \in 1..Len(sids) |-> distance_func(i, j)]]

\* main:107-112: the dict cluster_id -> items, keys in insertion order
RECURSIVE GroupFrom(_, _, _)
GroupFrom(lbls, id_, cl) ==
    IF id_ > Len(lbls) THEN cl
    ELSE LET cluster_id == lbls[id_]
             at == {k \in DOMAIN cl : cl[k].cluster_id = cluster_id}
         IN GroupFrom(lbls, id_ + 1,
                IF at = {}
                THEN Append(cl, [cluster_id |-> cluster_id, items |-> <<id_>>])
                ELSE [cl EXCEPT ![CHOOSE k \in at : TRUE].items =
                                    Append(@, id_)])

\* (variant: clusters[cluster_id] = [id_], the list replaced, not extended)
GroupByLabel_lastonly(lbls) ==
    LET cl == GroupFrom(lbls, 1, <<>>)
    IN [k \in DOMAIN cl |->
           [cluster_id |-> cl[k].cluster_id,
            items |-> <<cl[k].items[Len(cl[k].items)]>>]]

GroupByLabel(lbls) == GroupFrom(lbls, 1, <<>>)

\* main:115-118: one line per item of clusters.items()
ClusterLines(cl, ss, probs) ==
    [k \in DOMAIN cl |->
        [line |-> "[cluster]",
         cluster_id |-> cl[k].cluster_id,
         sids |-> [x \in DOMAIN cl[k].items |-> ss[cl[k].items[x]]],
         probabilities |->
             [x \in DOMAIN cl[k].items |-> probs[cl[k].items[x]]]]]

\* what fit_predict leaves on the clusterer (sklearn OPTICS, hdbscan): any
\* labels (-1 is noise), any core distances, any ordering_ that starts at the
\* first sample; any probabilities_ in [0, 1]
LabelVals == {-1, 0}
CoreVals == {Dist0, Dist1, DistInf}

Orderings(n) ==
    {q \in [1..n -> 1..n] :
        q[1] = 1 /\ \A a \in 1..n : \A b \in 1..n : a # b => q[a] # q[b]}

OpticsFits(n) ==
    [labels_ : [1..n -> LabelVals], ordering_ : Orderings(n),
     core_distances_ : [1..n -> CoreVals]]

HdbscanFits(n) ==
    [labels_ : [1..n -> LabelVals], probabilities_ : [1..n -> {Prob0, Prob1}]]

Fits(class, n) == IF class = "OPTICS" THEN OpticsFits(n) ELSE HdbscanFits(n)

NoFit == [labels_ |-> <<>>]
NoRun == [fitted |-> NoFit]

\* main:91-102: the sorted index of the StreamIDs
ClusterMain ==
    /\ pc = "cluster_main"
    /\ sids' = ListSort(key_order)
    /\ pc' = "cluster_data"
    /\ UNCHANGED <<heatmap_data, scan, print_stats, ordered_ids, readers,
                   printed>>
    /\ UNCHANGED <<key_order, processed_args, clusterer, metric_calls, fitted,
                   labels, probabilities, clusters, report, outcome, first_run>>
    /\ UNCHANGED <<loaderVars, timesVars, callVars>>

\* main:104, cluster_data:17-40,67-69,82,86-87: the arguments are read and
\* the clusterer is constructed, or the process exits
ClusterDataSetup ==
    /\ pc = "cluster_data"
    /\ LET setup == cluster_data_setup(processed_args)
       IN /\ clusterer' = setup.clusterer
          /\ outcome' = setup.exit
          /\ pc' = IF setup.exit = "running" THEN "fit" ELSE "exit"
    /\ UNCHANGED <<key_order, processed_args, metric_calls, fitted, labels,
                   probabilities, clusters, report, first_run>>
    /\ UNCHANGED <<loaderVars, graphVars, timesVars, callVars>>

\* the clusterer is a function of its input: a run with the metric values
\* and the parameters of the earlier run leaves what that run left
SameInput(run) ==
    /\ run # NoRun
    /\ run.clusterer = clusterer
    /\ run.metric_calls = MetricValues

\* what fit_predict can leave in the current run
FitsOfRun ==
    IF pc # "fit" THEN {}
    ELSE IF SameInput(first_run) THEN {first_run.fitted}
    ELSE Fits(clusterer.class, Len(sids))

\* cluster_data:41-46,70-71,84-85: fit_predict evaluates the metric on the
\* samples; labels and probabilities are returned
ClusterFitPredict(out) ==
    /\ pc = "fit"
    /\ fitted' = out
    /\ metric_calls' = MetricValues
    /\ labels' = out.labels_
    /\ probabilities' =
          IF clusterer.class = "OPTICS"
          THEN OpticsProbabilities(out.core_distances_, out.ordering_)
          ELSE out.probabilities_
    /\ report' = Append(report, [line |-> "Clustering data using",
                                 cluster_method |-> clusterer.class])
    /\ pc' = "clustered"
    /\ UNCHANGED <<key_order, processed_args, clusterer, clusters, outcome,
                   first_run>>
    /\ UNCHANGED <<loaderVars, graphVars, timesVars, callVars>>

\* main:107-124: the items are grouped by label and the groups are printed
ClusterReport ==
    /\ pc = "clustered"
    /\ clusters' = GroupByLabel(labels)
    /\ report' = Append(report, [line |-> "Found", n |-> Len(clusters')])
                    \o ClusterLines(clusters', sids, probabilities)
    /\ pc' = IF "show_graph" \in DOMAIN processed_args
             THEN "cluster_graph" ELSE "done"
    /\ UNCHANGED <<key_order, processed_args, clusterer, metric_calls, fitted,
                   labels, probabilities, outcome, first_run>>
    /\ UNCHANGED <<loaderVars, graphVars, timesVars, callVars>>

\* main:124-126 and graph_data:25-28: graph_data is called on the table
ClusterGraphData ==
    /\ pc = "cluster_graph"
    /\ print_stats' = (Lower(processed_args["show_graph"]) = "print_stats")
    /\ sids' = ListSort(sids)
    /\ heatmap_data' = Ones(Len(sids))
    /\ scan' = 0
    /\ pc' = "scan"
    /\ UNCHANGED <<ordered_ids, readers, printed>>
    /\ UNCHANGED <<loaderVars, timesVars, callVars, clusterVars>>

\* the entry point returns from main (cluster.py:133, data_insights.py:169)
\* after graph_data has returned, with or without a matrix: exit status 0
ProcessExit ==
    /\ pc \in {"done", "duplicate"}
    /\ outcome = "running"
    /\ outcome' = "completed"
    /\ UNCHANGED <<pc, key_order, processed_args, clusterer, metric_calls,
                   fitted, labels, probabilities, clusters, report, first_run>>
    /\ UNCHANGED <<loaderVars, graphVars, timesVars, callVars>>

\* the keys of the table inserted in ascending or in descending order
KeyOrders(t) == {SortedSeq(DOMAIN t), Reverse(SortedSeq(DOMAIN t))}

\* cluster.py:129-134 run again on the same table and arguments (an OPTICS
\* run without show_graph), the keys of the table inserted in another order
Rerun(order) ==
    /\ pc = "done" /\ outcome = "completed"
    /\ first_run = NoRun
    /\ clusterer.class = "OPTICS"
    /\ "show_graph" \notin DOMAIN processed_args
    /\ order \in KeyOrders(cooc_data)
    /\ first_run' = [key_order |-> key_order, sids |-> sids,
                     clusterer |-> clusterer,
                     metric_calls |-> metric_calls, fitted |-> fitted,
                     labels |-> labels, probabilities |-> probabilities]
    /\ key_order' = order
    /\ sids' = <<>>
    /\ clusterer' = NoClusterer
    /\ metric_calls' = <<>>
    /\ fitted' = NoFit
    /\ labels' = <<>>
    /\ probabilities' = <<>>
    /\ clusters' = <<>>
    /\ report' = <<>>
    /\ outcome' = "running"
    /\ pc' = "cluster_main"
    /\ UNCHANGED <<processed_args, heatmap_data, scan, print_stats,
                   ordered_ids, readers, printed>>
    /\ UNCHANGED <<loaderVars, timesVars, callVars>>

----
\* The programs: data_insights.py on an overlap table, compare.py on
\* timestamps, and the calls of the pure functions

GraphStart ==
    /\ sids = <<>> /\ heatmap_data = <<>> /\ scan = 0
    /\ print_stats = FALSE /\ ordered_ids = <<>>
    /\ readers = {} /\ printed = <<>>

TimesStart ==
    /\ overlap_matrix = <<>> /\ pair = 0 /\ distance_matrix = <<>>
    /\ visited = {}

TimesIdle ==
    /\ selected_sids = <<>> /\ sid_times = EmptyMap /\ std_dev = 0
    /\ TimesStart

\* no run of cluster.py
ClusterStart ==
    /\ clusterer = NoClusterer /\ metric_calls = <<>> /\ fitted = NoFit
    /\ labels = <<>> /\ probabilities = <<>> /\ clusters = <<>>
    /\ report = <<>> /\ outcome = "running" /\ first_run = NoRun

ClusterIdle ==
    /\ key_order = <<>> /\ processed_args = EmptyMap
    /\ ClusterStart

Init ==
    /\ LoaderStart /\ GraphStart /\ ClusterIdle
    /\ \/ /\ pc = "load_cooc"
          /\ TimesIdle
          /\ args = NoCall
       \/ /\ pc = "compare"
          /\ selected_sids \in Selections
          /\ sid_times \in [TimeSids -> TimeSeqs]
          /\ std_dev \in StdDevs
          /\ TimesStart
          /\ args = NoCall
       \/ /\ pc = "call_transform"
          /\ TimesIdle
          /\ args \in [overlap : OverlapArgs, overlap2 : OverlapArgs,
                       max : MaxArgs]
       \/ /\ pc = "call_overlap"
          /\ TimesIdle
          /\ args \in [times1 : CallTimeSeqs, times2 : CallTimeSeqs,
                       std_dev : StdDevs, cutoff : 0..MaxCutoff]
    /\ ret = NoCall

Next ==
    \/ \E s \in SIDS : LoadOuter(s)
    \/ \E t \in SIDS, v \in OverlapVals : LoadInner(t, v)
    \/ LoadOuterEnd
    \/ InsightsMain
    \/ GraphScanStep
    \/ GraphScanDone
    \/ GraphStats
    \/ GraphReorder
    \/ GraphHeatmap
    \/ GraphProjection
    \/ CompareMain
    \/ PairStep
    \/ PairsDone
    \/ PlotDistances
    \/ CallOverlapToDistance
    \/ CallMainOverlapToDistance
    \/ CallTotalOverlap
    \/ CallTotalOverlapWithCutoff
    \/ PlotGaussianMain
    \/ ProcessExit

Spec == Init /\ [][Next]_vars

----
\* cluster.py on a loaded table

NumItems == 3         \* outer records of the table of a cluster.py run

\* load_cooc:29-41 on a file of NumItems outer records: the pairs (s, s + 1)
\* stored in one direction, with overlaps 1, 2, 1, ...
OneWayTable ==
    [s \in 1..NumItems |->
        IF s < NumItems THEN Put(EmptyMap, s + 1, 2 - (s % 2)) ELSE EmptyMap]

\* load_cooc:29-41 on a file of NumItems outer records: the pair (1, 2)
\* stored in both directions, with overlap 2
BothWaysTable ==
    [s \in 1..NumItems |->
        IF s <= 2 THEN Put(EmptyMap, 3 - s, 2) ELSE EmptyMap]

\* load_cooc:29-41 on a file of NumItems - 1 outer records: the last
\* StreamID occurs in an inner record only, with overlap 1
InnerOnlyTable ==
    [s \in 1..(NumItems - 1) |->
        IF s = NumItems - 1 THEN Put(EmptyMap, NumItems, 1) ELSE EmptyMap]

ClusterTables == {OneWayTable, BothWaysTable, InnerOnlyTable}

\* the (outer sid, inner sid) pairs of the inner records
Entries(t) == UNION {{<<a, b>> : b \in DOMAIN t[a]} : a \in DOMAIN t}

\* load_cooc:29,37-38: the largest overlap of the table, -1 without entries
TableMax(t) ==
    CHOOSE x \in {-1} \cup {t[e[1]][e[2]] : e \in Entries(t)} :
        \A e \in Entries(t) : t[e[1]][e[2]] <= x

\* cluster.py:129-134: the arguments are read and the table is loaded
ClusterInit ==
    /\ pc = "cluster_main"
    /\ cooc_data \in ClusterTables
    /\ max_overlap = TableMax(cooc_data)
    /\ nrec = Cardinality(Entries(cooc_data))
    /\ cur_outer = NoSid /\ inner_dict = EmptyMap
    /\ key_order \in KeyOrders(cooc_data)
    /\ processed_args \in CommandLines
    /\ ClusterStart /\ GraphStart /\ TimesIdle
    /\ args = NoCall /\ ret = NoCall

ClusterNext ==
    \/ ClusterMain
    \/ ClusterDataSetup
    \/ \E out \in FitsOfRun : ClusterFitPredict(out)
    \/ ClusterReport
    \/ ClusterGraphData
    \/ GraphScanStep
    \/ GraphScanDone
    \/ GraphStats
    \/ GraphReorder
    \/ GraphHeatmap
    \/ GraphProjection
    \/ ProcessExit
    \/ \E order \in KeyOrders(cooc_data) : Rerun(order)

SpecCluster == ClusterInit /\ [][ClusterNext]_vars

----
\* compare.py, the pairs of calculate_pairwise_overlaps taken in any order

\* one timestamp per stream
OneTimeSeqs == {<<t>> : t \in TimeVals}

\* compare.py:204-236: the config and the timestamps are loaded
AnyOrderInit ==
    /\ LoaderStart /\ GraphStart /\ ClusterIdle
    /\ pc = "compare"
    /\ selected_sids \in Selections
    /\ sid_times \in [TimeSids -> OneTimeSeqs]
    /\ std_dev \in StdDevs
    /\ TimesStart
    /\ args = NoCall /\ ret = NoCall

AnyOrderNext ==
    \/ CompareMain
    \/ \E i \in TimeSids, j \in TimeSids : PairStepAny(i, j)
    \/ AnyOrderDone
    \/ PlotDistances

SpecAnyOrder == AnyOrderInit /\ [][AnyOrderNext]_vars

----
\* compare.py overlap mode on any selection of the config

\* config["selected_sids"]: any list of StreamIDs, one possibly named twice
\* or absent from the file
AnySelections == UNION {[1..n -> TimeSids] : n \in 1..NumStreams}

\* compare.py:204-223: the config is read and load_times has returned the
\* streams of the file, any of the StreamIDs
SelectionInit ==
    /\ LoaderStart /\ GraphStart /\ ClusterIdle
    /\ pc = "compare"
    /\ selected_sids \in AnySelections
    /\ \E S \in SUBSET TimeSids : sid_times \in [S -> OneTimeSeqs]
    /\ std_dev \in StdDevs
    /\ TimesStart
    /\ args = NoCall /\ ret = NoCall

SelectionNext ==
    \/ CompareMain
    \/ PairStep
    \/ PairsDone
    \/ PlotDistances

SpecSelection == SelectionInit /\ [][SelectionNext]_vars

----
\* Properties

\* the scan of graph_data has ended, with or without a duplicate
ScanOver ==
    pc \in {"duplicate", "stats", "reorder", "heatmap", "projection", "done"}

Returned(f) == pc = "returned" /\ ret.fn = f

TransformCalled ==
    ret.fn \in {"overlap.overlap_to_distance", "main.overlap_to_distance"}

DuplicateReported ==
    \E k \in DOMAIN printed : printed[k].msg = "Duplicate entry found"

AllInUnit(m) == \A i \in DOMAIN m : \A j \in DOMAIN m[i] : InUnit(m[i][j])
AllOne(m) == \A i \in DOMAIN m : \A j \in DOMAIN m[i] : m[i][j] = Dist1

\* C1: every matrix the program builds is symmetric in every state: the
\* matrix of graph_data after every step of its scan, the overlap matrix of
\* calculate_pairwise_overlaps and the matrix create_distance_matrix derives
DistanceMatricesSymmetric ==
    /\ Symmetric(heatmap_data)
    /\ Symmetric(overlap_matrix)
    /\ Symmetric(distance_matrix)

\* C1 witness: the scan is under way and has set an off-diagonal pair
MirroredPairWritten ==
    /\ pc = "scan"
    /\ \E i \in DOMAIN heatmap_data : \E j \in DOMAIN heatmap_data :
          i # j /\ heatmap_data[i][j] # Dist1

\* some pair is stored in both directions with unequal values
ContradictoryPair(t) ==
    \E a \in DOMAIN t : \E b \in DOMAIN t[a] :
        /\ a # b /\ b \in DOMAIN t /\ a \in DOMAIN t[b]
        /\ t[a][b] # t[b][a]

\* C2: whenever the table holds a pair stored in both directions with
\* unequal values, the build ends in the duplicate outcome and no later
\* stage gets a matrix
ContradictoryEntriesRejected ==
    (ScanOver /\ ContradictoryPair(cooc_data))
        => (pc = "duplicate" /\ readers = {})

\* every pair of the table is stored in both directions with equal values
StoredBothWays(t) ==
    \A a \in DOMAIN t : \A b \in DOMAIN t[a] :
        b \in DOMAIN t /\ a \in DOMAIN t[b] /\ t[b][a] = t[a][b]

\* C3: a table that stores every pair in both directions with equal values
\* is built without a duplicate being reported
ConsistentTableCompletes ==
    (ScanOver /\ StoredBothWays(cooc_data))
        => (pc # "duplicate" /\ ~DuplicateReported)

\* C4: once a duplicate has been reported the build has stopped at that
\* entry and no later stage has read the partially filled matrix
BuildAllOrNothing ==
    DuplicateReported =>
        /\ pc = "duplicate"
        /\ readers = {}
        /\ Len(printed) = 1
        /\ scan < Len(sids) * Len(sids)
        /\ sids[(scan \div Len(sids)) + 1] = printed[1].a
        /\ sids[(scan % Len(sids)) + 1] = printed[1].b

\* C4 witness: the build stopped on a duplicate before the end of the scan,
\* with part of the matrix filled
StoppedOnDuplicate ==
    /\ pc = "duplicate"
    /\ scan + 1 < Len(sids) * Len(sids)
    /\ ~AllOne(heatmap_data)

\* C5: every value the transform returns lies in [0, 1], whatever overlap
\* and max_overlap are, and so does every entry of a built distance matrix
DistancesInUnitInterval ==
    /\ TransformCalled => (InUnit(ret.d) /\ InUnit(ret.d2))
    /\ AllInUnit(heatmap_data)
    /\ AllInUnit(distance_matrix)

\* C5 witness: the transform returned for a positive overlap and a
\* max_overlap of 0 or less
ReturnedForNonPositiveMax ==
    /\ Returned("overlap.overlap_to_distance")
    /\ args.max <= 0
    /\ args.overlap > 0

\* C6: for max_overlap > 0, both copies of the transform map every overlap
\* <= 0 to 1 and every overlap >= max_overlap to 0
TransformEndpoints ==
    (TransformCalled /\ args.max > 0) =>
        /\ args.overlap <= 0 => ret.d = Dist1
        /\ args.overlap >= args.max => ret.d = Dist0

\* C6 witness: the copy of main.py returned for overlap = max_overlap > 0
ReturnedForMaxOverlap ==
    /\ Returned("main.overlap_to_distance")
    /\ args.max > 0
    /\ args.overlap = args.max

\* C7: for max_overlap > 0, overlap <= overlap2 implies that the distance
\* of overlap2 is at most the distance of overlap
TransformMonotone ==
    (Returned("overlap.overlap_to_distance") /\ args.max > 0
        /\ args.overlap <= args.overlap2)
        => DistLeq(ret.d2, ret.d)

\* C7 witness: two different overlaps strictly between 0 and max_overlap
ReturnedForTwoInnerOverlaps ==
    /\ Returned("overlap.overlap_to_distance")
    /\ 0 < args.overlap /\ args.overlap < args.overlap2
    /\ args.overlap2 < args.max

\* C8: when the max_overlap of the run is 0, every distance the program
\* computes is 1 (and none is an error): in the matrix of graph_data for the
\* loader's max_overlap, in the matrix of create_distance_matrix for the
\* maximum of the overlap matrix
DegenerateMaxAllOne ==
    /\ max_overlap = 0 => AllOne(heatmap_data)
    /\ (pc = "distances" /\ MatrixMax(overlap_matrix) = 0)
           => AllOne(distance_matrix)

\* C8 witness: graph_data finished on a table with entries between its
\* streams and max_overlap = 0
BuiltWithZeroMax ==
    /\ pc = "done"
    /\ max_overlap = 0
    /\ \E a \in DOMAIN cooc_data : \E b \in DOMAIN cooc_data[a] :
          a # b /\ b \in DOMAIN cooc_data

CutoffCorrect ==
    /\ Returned("plot_overlap_gaussian.main") =>
          \A a \in DOMAIN args.times1 : \A b \in DOMAIN args.times2 :
              IF Abs(args.times1[a] - args.times2[b]) >= 2 * ret.cutoff
              THEN ret.areas[a][b] = 0
              ELSE ret.areas[a][b] > 0
    /\ Returned("total_overlap") =>
          (ret.ab = 0 <=>
              \A a \in DOMAIN args.times1 : \A b \in DOMAIN args.times2 :
                  Abs(args.times1[a] - args.times2[b]) >= 2 * ret.cutoff)
    /\ total_overlap(<<0>>, <<1000>>, 1, 4) = 0

\* C10 witness: one call with a pair outside the window, a pair exactly at
\* its edge and a pair inside it
PairsOnBothSidesOfCutoff ==
    /\ Returned("plot_overlap_gaussian.main")
    /\ ret.cutoff > 0
    /\ \E a \in DOMAIN args.times1 : \E b \in DOMAIN args.times2 :
          Abs(args.times1[a] - args.times2[b]) > 2 * ret.cutoff
    /\ \E a \in DOMAIN args.times1 : \E b \in DOMAIN args.times2 :
          Abs(args.times1[a] - args.times2[b]) = 2 * ret.cutoff
    /\ \E a \in DOMAIN args.times1 : \E b \in DOMAIN args.times2 :
          Abs(args.times1[a] - args.times2[b]) < 2 * ret.cutoff

----
\* Properties of cluster.py

\* cluster_data has returned labels and probabilities of an OPTICS fit
OpticsReturned == clusterer.class = "OPTICS" /\ labels # <<>>

\* C11: every confidence of the OPTICS strategy lies in [0, 1], whatever the
\* core distances are (infinite ones and an all-zero vector included), and
\* is 0 where the core distance it is computed from is infinite
ConfidenceInUnitInterval ==
    OpticsReturned =>
        \A k \in DOMAIN probabilities :
            /\ ProbInUnit(probabilities[k])
            /\ fitted.core_distances_[fitted.ordering_[k]] = DistInf
                  => probabilities[k] = Prob0

\* the lines of the report that list a group
GroupLines == {k \in DOMAIN report : report[k].line = "[cluster]"}

\* the index of a StreamID in sids
IndexOf(sid) == CHOOSE i \in DOMAIN sids : sids[i] = sid

\* the confidence the clusterer computed for item i
OwnConfidence(i) ==
    IF clusterer.class = "OPTICS"
    THEN OneMinus(Divide(fitted.core_distances_[i],
                         SeqMax(fitted.core_distances_)))
    ELSE fitted.probabilities_[i]

\* C12: under both strategies every StreamID of the report stands in the
\* group of its own label, next to its own confidence, whatever ordering_ is
PairedWithOwnLabelAndConfidence ==
    \A k \in GroupLines :
        \A x \in DOMAIN report[k].sids :
            LET i == IndexOf(report[k].sids[x])
            IN /\ report[k].cluster_id = fitted.labels_[i]
               /\ report[k].probabilities[x] = OwnConfidence(i)

Ascending(q) == \A a \in DOMAIN q : \A b \in DOMAIN q : a < b => q[a] < q[b]

\* C13: the report lists the groups in ascending order of their labels and,
\* within a group, the StreamIDs in ascending order, each with the
\* confidence cluster_data returned at its index, for every label vector
ReportSortedByLabel ==
    /\ \A k1 \in GroupLines : \A k2 \in GroupLines :
          k1 < k2 => report[k1].cluster_id < report[k2].cluster_id
    /\ \A k \in GroupLines :
          /\ Ascending(report[k].sids)
          /\ \A x \in DOMAIN report[k].sids :
                report[k].probabilities[x]
                    = probabilities[IndexOf(report[k].sids[x])]

\* cluster_data has read the arguments of the run
SetupDone == pc \notin {"cluster_main", "cluster_data"}

\* a strategy name was given and it is neither OPTICS nor HDBSCAN in any case
NameUnsupported ==
    /\ "cluster_method" \in DOMAIN processed_args
    /\ Upper(processed_args["cluster_method"]) \notin Supported

\* cluster_args was given, is not empty, and each of its args has an "="
ArgsWellFormed ==
    /\ "cluster_args" \in DOMAIN processed_args
    /\ processed_args["cluster_args"] # <<>>
    /\ \A k \in DOMAIN processed_args["cluster_args"] :
          Len(processed_args["cluster_args"][k]) = 2

\* C14 as stated: whenever the strategy name is not a supported one, the run
\* ends with the unsupported-method signal and without labels or
\* confidences, whatever the other arguments are
UnsupportedMethodSignalled ==
    (SetupDone /\ NameUnsupported) =>
        /\ outcome = UnknownMethod
        /\ labels = <<>> /\ probabilities = <<>>

\* C14 amended: whenever the strategy name is not a supported one, the run
\* ends in an exit without a clusterer, labels or confidences, whatever the
\* other arguments are; the exit is the unsupported-method signal exactly
\* when the name is not empty and cluster_args is given and well formed
\* (cluster_args is read before the name is compared)
UnsupportedMethodFatal ==
    (SetupDone /\ NameUnsupported) =>
        /\ pc = "exit"
        /\ outcome \in {UnknownMethod, NoClusterMethod, NoClusterArgs,
                        ValueErrorRaised}
        /\ outcome = UnknownMethod
              <=> (processed_args["cluster_method"] # "" /\ ArgsWellFormed)
        /\ clusterer = NoClusterer
        /\ labels = <<>> /\ probabilities = <<>> /\ GroupLines = {}

\* C14 witness: the run ended with the unsupported-method signal
ExitedOnUnknownMethod ==
    /\ pc = "exit" /\ outcome = UnknownMethod
    /\ processed_args["cluster_method"] = "kmeans"

\* cluster_args is well formed and none of its args is min_samples
LacksMinSamples ==
    /\ ArgsWellFormed
    /\ \A k \in DOMAIN processed_args["cluster_args"] :
          processed_args["cluster_args"][k][1] # "min_samples"

\* C15: with cluster_method missing, cluster_args missing, or cluster_args
\* without min_samples, the run ends in an error exit (whichever its
\* message) before any computation: no clusterer has been constructed, no
\* distance has been evaluated and no group has been printed
MissingParameterFatal ==
    (SetupDone /\ (~HasMethod(processed_args) \/ ~HasClusterArgs(processed_args)
                      \/ LacksMinSamples)) =>
        /\ pc = "exit"
        /\ outcome \notin {"running", "completed"}
        /\ clusterer = NoClusterer
        /\ metric_calls = <<>>
        /\ GroupLines = {}

\* C16: once the matrix build has reported a duplicate entry, the run does
\* not end as a normal completion: the caller of graph_data gets a failure
DuplicateSurfacedToCaller ==
    DuplicateReported => outcome # "completed"

\* C17: a second OPTICS run on the same table, max_overlap and arguments,
\* with the keys of the table inserted in any order, has the sorted index
\* and the distance_func values of the first run and, a clusterer being a
\* function of the metric values and parameters it is given, returns the
\* labels, the processing order and the confidences of the first run
RerunIdentical ==
    first_run # NoRun =>
        /\ pc # "cluster_main" =>
              /\ sids = first_run.sids
              /\ MetricValues = first_run.metric_calls
        /\ labels # <<>> =>
              /\ metric_calls = first_run.metric_calls
              /\ labels = first_run.labels
              /\ fitted.ordering_ = first_run.fitted.ordering_
              /\ probabilities = first_run.probabilities

\* C17 witness: the second run has returned; its keys were inserted in
\* another order than those of the first, and the distances are not all 1
RerunInOtherKeyOrder ==
    /\ first_run # NoRun
    /\ labels # <<>>
    /\ key_order # first_run.key_order
    /\ \E i \in DOMAIN metric_calls : \E j \in DOMAIN metric_calls :
          i # j /\ metric_calls[i][j] # Dist1

\* C19: for every loaded table, the distance function handed to the
\* clusterer is symmetric: distance_func(i, j) = distance_func(j, i) for all
\* indices i # j of the sorted StreamIDs
MetricSymmetric ==
    \A i \in DOMAIN sids : \A j \in DOMAIN sids :
        i # j => distance_func(i, j) = distance_func(j, i)

----
\* Properties of the pair steps of compare.py

\* the matrices m and m2 differ at most in the cells (i, j) and (j, i)
OnlyPairChanged(m, m2, i, j) ==
    \A a \in DOMAIN m : \A b \in DOMAIN m[a] :
        (<<a, b>> \notin {<<i, j>>, <<j, i>>}) => m2[a][b] = m[a][b]

\* C20: the step of a pair i < j writes the cells [i][j] and [j][i], with
\* the total overlap of the TimestampSets of sids[i] and sids[j], and leaves
\* every other cell unchanged; and in whatever order the pairs are taken,
\* the matrix that is saved (and so its maximum) is the one the double loop
\* builds in its own order
PairStepsIndependent ==
    /\ [][(pc = "pairs" /\ visited' # visited) =>
            \E c \in AllPairs :
                /\ visited' = visited \cup {c}
                /\ OnlyPairChanged(overlap_matrix, overlap_matrix', c[1], c[2])
                /\ overlap_matrix'[c[1]][c[2]] = PairOverlap(c[1], c[2])
                /\ overlap_matrix'[c[2]][c[1]] = PairOverlap(c[1], c[2])]_vars
    /\ [](pc = "saved" =>
            /\ overlap_matrix = calculate_pairwise_overlaps
            /\ MatrixMax(overlap_matrix)
                  = MatrixMax(calculate_pairwise_overlaps))

\* C20 witness: the last pair of the loop's order has been computed, with
\* a positive overlap, before the first pair
LastPairComputedFirst ==
    /\ pc = "pairs"
    /\ <<1, 2>> \notin visited
    /\ <<Len(selected_sids) - 1, Len(selected_sids)>> \in visited
    /\ overlap_matrix[Len(selected_sids) - 1][Len(selected_sids)] > 0

----
\* Properties of the cutoff, the transform's division and the indexing

\* the calls that evaluate overlap_area, each recording the cutoff it used
OverlapAreaCallers ==
    {"total_overlap", "total_overlap(cutoff)", "plot_overlap_gaussian.main"}

\* C21: on every call path the cutoff that reaches overlap_area is at most
\* 4 * std_dev: in the double loop of compare.py, in plot_overlap_gaussian
\* main, and in total_overlap for every cutoff of its caller
CutoffAtMostFourSpreads ==
    /\ ret.fn \in OverlapAreaCallers => ret.cutoff <= 4 * args.std_dev
    /\ pc = "pairs" => std_dev * CUTOFF_FACTOR <= 4 * std_dev

\* C21: the same on the two paths that fix or clamp the cutoff
CutoffBoundedWhereClamped ==
    /\ ret.fn \in OverlapAreaCallers \ {"total_overlap(cutoff)"}
          => ret.cutoff <= 4 * args.std_dev
    /\ pc = "pairs" => std_dev * CUTOFF_FACTOR <= 4 * std_dev

\* C21: total_overlap returned a positive total for a cutoff above
\* 4 * std_dev that is 0 for the cutoff 4 * std_dev
UnclampedCutoffCounted ==
    /\ ret.fn = "total_overlap(cutoff)"
    /\ ret.cutoff > 4 * args.std_dev
    /\ ret.total > 0
    /\ total_overlap(args.times1, args.times2, args.std_dev,
                     4 * args.std_dev) = 0

\* v is what the division overlap / max_overlap left: e^x with x # 0, or the
\* error of a division by zero
Divided(v) == v.kind = "error" \/ (v.kind = "exp" /\ v.n # 0)

NoneAnError(m) == \A i \in DOMAIN m : \A j \in DOMAIN m[i] : m[i][j] # DistErr

\* C23: overlap_to_distance never divides by zero: it divides only when
\* 0 < overlap < max_overlap, for every overlap and every max_overlap (0 and
\* the loader's -1 included), and no distance of a built matrix is the error
\* of a division by zero
NoDivisionByZero ==
    /\ Returned("overlap.overlap_to_distance") =>
          /\ ret.d # DistErr /\ ret.d2 # DistErr
          /\ Divided(ret.d) => (0 < args.overlap /\ args.overlap < args.max)
          /\ Divided(ret.d2) => (0 < args.overlap2 /\ args.overlap2 < args.max)
    /\ NoneAnError(heatmap_data)
    /\ NoneAnError(distance_matrix)

\* C23 witness: the transform returned for the max_overlap of a table
\* without entries (-1), for a positive overlap and for an overlap of 0
ReturnedForMaxOfEmptyTable ==
    /\ Returned("overlap.overlap_to_distance")
    /\ args.max = -1
    /\ args.overlap > 0
    /\ args.overlap2 = 0

\* the grouping loop of cluster.py main has run
Grouped ==
    /\ labels # <<>>
    /\ pc \in {"cluster_graph", "scan", "duplicate", "stats", "reorder",
               "heatmap", "projection", "done"}

\* the places (group, position) of clusters that hold the item id_
PlacesOf(id_) ==
    {c \in (DOMAIN clusters) \X (1..Len(labels)) :
        /\ c[2] \in DOMAIN clusters[c[1]].items
        /\ clusters[c[1]].items[c[2]] = id_}

IsPermutation(q, n) ==
    Len(q) = n /\ \A id_ \in 1..n : \E x \in DOMAIN q : q[x] = id_

\* C24: after the grouping loop every item index is in exactly one cluster
\* list, the one keyed by its label, no two lists share a key, and the
\* ordered_ids that graph_data builds from the groups in sorted key order is
\* a permutation of the item indices
GroupingIsPartition ==
    /\ Grouped =>
          /\ \A id_ \in 1..Len(labels) :
                /\ Cardinality(PlacesOf(id_)) = 1
                /\ \A c \in PlacesOf(id_) :
                      clusters[c[1]].cluster_id = labels[id_]
          /\ \A k \in DOMAIN clusters :
                /\ \A x \in DOMAIN clusters[k].items :
                      clusters[k].items[x] \in 1..Len(labels)
                /\ \A k2 \in DOMAIN clusters :
                      clusters[k].cluster_id = clusters[k2].cluster_id
                          => k = k2
    /\ (Grouped /\ "reorder" \in readers)
          => IsPermutation(ordered_ids, Len(labels))

\* C24 witness: graph_data has reordered two groups whose sorted key order
\* is not the order of the items
ReorderedTwoGroups ==
    /\ Grouped /\ pc = "heatmap"
    /\ Len(clusters) = 2
    /\ ordered_ids # [x \in 1..Len(labels) |-> x]

\* load_cooc:31-39: the StreamIDs of the table, outer and inner
StreamIDsOf(t) == DOMAIN t \cup UNION {DOMAIN t[a] : a \in DOMAIN t}

\* C25: once cluster_data has returned, every StreamID of the loaded table,
\* outer key or inner key only, has an index in the sorted list sids, and
\* that index has a label and a confidence
EveryStreamIDIndexed ==
    labels # <<>> =>
        \A s \in StreamIDsOf(cooc_data) :
            \E i \in DOMAIN sids :
                sids[i] = s /\ i \in DOMAIN labels /\ i \in DOMAIN probabilities

\* C25: the run reported its clusters for a table with a StreamID that is
\* an inner key only, and that StreamID is in no line of the report
InnerOnlyStreamUnreported ==
    /\ Grouped
    /\ \E s \in StreamIDsOf(cooc_data) \ DOMAIN cooc_data :
          \A k \in DOMAIN report :
              report[k].line = "[cluster]" =>
                  \A x \in DOMAIN report[k].sids : report[k].sids[x] # s

----
\* Properties of the selection of compare.py

\* C26: in overlap mode, for every selection, calculate_pairwise_overlaps
\* looks up only sids that have a TimestampSet and writes only cells of the
\* matrix it allocated, and the matrix it returns has one row per selected
\* sid, cell (i, j) being the overlap of selected_sids[i] and selected_sids[j]
SelectionWithinMatrix ==
    /\ outcome \notin {"KeyError", "IndexError"}
    /\ pc = "saved" =>
          /\ Len(overlap_matrix) = Len(selected_sids)
          /\ \A c \in AllPairs :
                overlap_matrix[c[1]][c[2]] = PairOverlap(c[1], c[2])

\* C26: a selection that names one StreamID twice, every StreamID found:
\* the write of the last column raised IndexError
DuplicateSelectionOutsideMatrix ==
    /\ pc = "exit" /\ outcome = "IndexError"
    /\ printed = <<>>
    /\ Len(overlap_matrix) < Len(selected_sids)

\* C26: a selection that names a StreamID the loader did not return: the
\* message was printed and the run ended in plot_times with KeyError
MissingSidRaisedInPlotTimes ==
    /\ pc = "exit" /\ outcome = "KeyError in plot_times"
    /\ printed # <<>>
    /\ overlap_matrix = <<>>

====
